---- MODULE Spec2Model ----
(***************************************************************************)
(* FalAI development server (server.py): a SimpleHTTPRequestHandler        *)
(* subclass that answers GET /endpoints with the JSON list of the          *)
(* openapi.json paths found under ./endpoints, adds CORS headers in        *)
(* end_headers for every path that starts with /endpoints, and delegates   *)
(* everything else to static file serving.  The main block runs            *)
(* TCPServer.serve_forever until KeyboardInterrupt.                        *)
(*                                                                         *)
(* Strings the code inspects (request paths, response bodies) are          *)
(* sequences of tokens, so that ==, startswith, split('/') and the JSON    *)
(* encoding are computed and not assumed.  The library the handler is      *)
(* built on (http.server, socketserver, pathlib of CPython 3.11) is        *)
(* modelled at the calls the source makes into it.  Request lines are      *)
(* either well formed with an HTTP/1.x version or malformed; the           *)
(* header-less HTTP/0.9 form is outside the model.                         *)
(***************************************************************************)
EXTENDS Integers, Sequences, FiniteSets, TLC

VARIABLES
    tree,             \* working directory: path (sequence of names) -> kind
    pc,               \* position of the main thread in the __main__ block
    is_shut_down,     \* BaseServer.__is_shut_down (threading.Event)
    shutdown_request, \* BaseServer.__shutdown_request
    stdout,           \* lines printed by the __main__ block
    exitStatus,       \* "running", or the exit status of the process
    request,          \* request line handled by this step, or NoRequest
    wire,             \* what the handler wrote to the client for it
    exc,              \* exception that escaped the handler and was logged
                      \* by handle_error ("none" if none)
    lastListing       \* listing of the previous discovery response since
                      \* the directory tree last changed (history variable)

vars == <<tree, pc, is_shut_down, shutdown_request, stdout, exitStatus,
          request, wire, exc, lastListing>>

-----------------------------------------------------------------------------
(* Bounds *)

MaxDepth == 1      \* directory levels below endpoints/
MaxEntries == 3    \* files and directories existing at one time

-----------------------------------------------------------------------------
(* Sequences and strings *)

StartsWith(s, prefix) ==
    /\ Len(s) >= Len(prefix)
    /\ SubSeq(s, 1, Len(prefix)) = prefix

Range(s) == {s[i] : i \in 1..Len(s)}

SLASH == "/"
QUOTE == "\""

(* The literal '/endpoints' of do_GET and end_headers. *)
ENDPOINTS_PATH == <<SLASH, "endpoints">>

(* Path('endpoints') *)
endpoints_dir == <<"endpoints">>

DirNames == {"a", "b"}
SPEC_NAME == "openapi.json"
OTHER_NAME == "other.json"
INDEX_NAME == "index.html"

(* Sequences over DirNames of length at most n. *)
RECURSIVE DirSeqs(_)
DirSeqs(n) ==
    IF n = 0 THEN {<<>>}
    ELSE LET shorter == DirSeqs(n - 1)
         IN  shorter \cup {Append(d, x) : d \in shorter, x \in DirNames}

(* Every path the model's working directory can hold. *)
Universe ==
    LET dirs == {endpoints_dir \o d : d \in DirSeqs(MaxDepth)}
    IN  dirs
        \cup {Append(d, f) : d \in dirs, f \in {SPEC_NAME, OTHER_NAME}}
        \cup {<<INDEX_NAME>>}

Kinds == {"file", "dir", "locked"}   \* locked: a directory with mode 000

Parent(p) == SubSeq(p, 1, Len(p) - 1)

(* os.stat(p): the kind of p, "none" when p is absent or one of its       *)
(* ancestors cannot be searched.  <<>> is the working directory.          *)
Stat(t, p) ==
    IF p = <<>> THEN "dir"
    ELSE IF /\ p \in DOMAIN t
            /\ \A i \in 1..(Len(p) - 1) : t[SubSeq(p, 1, i)] = "dir"
         THEN t[p]
         ELSE "none"

IsDirKind(k) == k \in {"dir", "locked"}

(* str(path): the names joined by '/'. *)
RECURSIVE Str(_)
Str(p) ==
    IF p = <<>> THEN <<>>
    ELSE IF Len(p) = 1 THEN <<p[1]>>
    ELSE <<p[1], SLASH>> \o Str(Tail(p))

-----------------------------------------------------------------------------
(* pathlib: Path('endpoints').glob('**/openapi.json') *)

AllNames == DirNames \cup {SPEC_NAME, OTHER_NAME}

(* Orders in which os.scandir may return the entries of a directory. *)
DefaultOrder == <<"a", "b", SPEC_NAME, OTHER_NAME>>
ScanOrders == {DefaultOrder, <<OTHER_NAME, SPEC_NAME, "b", "a">>}

(* _PreciseSelector: start/openapi.json when it exists, whatever its kind; *)
(* a PermissionError (start cannot be searched) yields nothing.            *)
PreciseSelect(t, start) ==
    IF t[start] = "locked" THEN <<>>
    ELSE IF Append(start, SPEC_NAME) \in DOMAIN t
         THEN <<Append(start, SPEC_NAME)>>
         ELSE <<>>

(* _RecursiveWildcardSelector._iterate_directories: d, then the walk of    *)
(* each entry of d that is a directory, in scandir order; scandir of a     *)
(* locked directory raises PermissionError, which ends the walk of d.      *)
RECURSIVE IterateDirectories(_, _, _)
RECURSIVE IterateEntries(_, _, _, _)
IterateDirectories(t, d, order) ==
    <<d>> \o (IF t[d] = "locked" THEN <<>> ELSE IterateEntries(t, d, order, 1))

IterateEntries(t, d, order, i) ==
    IF i > Len(order) THEN <<>>
    ELSE LET entry == Append(d, order[i])
         IN  (IF entry \in DOMAIN t /\ IsDirKind(t[entry])
              THEN IterateDirectories(t, entry, order)
              ELSE <<>>)
             \o IterateEntries(t, d, order, i + 1)

RECURSIVE SelectAll(_, _)
SelectAll(t, starts) ==
    IF starts = <<>> THEN <<>>
    ELSE PreciseSelect(t, Head(starts)) \o SelectAll(t, Tail(starts))

(* Variant of Glob: the pattern 'openapi.json' without the recursive '**'. *)
Glob_NotRecursive(t, root, order) ==
    IF ~IsDirKind(Stat(t, root)) THEN <<>>
    ELSE PreciseSelect(t, root)

(* _Selector.select_from: nothing unless the root is a directory. *)
Glob(t, root, order) ==
    IF ~IsDirKind(Stat(t, root)) THEN <<>>
    ELSE SelectAll(t, IterateDirectories(t, root, order))

(* Variant of DiscoverEndpoints: no exists() test before the walk, so an   *)
(* absent directory raises.                                                *)
DiscoverEndpoints_NoExistsTest(t, order, fault) ==
    IF Stat(t, endpoints_dir) = "none" \/ (fault /\ Stat(t, endpoints_dir) = "dir")
    THEN [exc |-> "OSError", endpoints |-> <<>>]
    ELSE LET found == Glob(t, endpoints_dir, order)
         IN  [exc |-> "none",
              endpoints |-> [i \in 1..Len(found) |-> Str(found[i])]]

(* do_GET lines 22-26: the endpoints list, or the exception that escapes.  *)
(* fault: scandir of the endpoints directory raises an OSError other than  *)
(* PermissionError (an I/O error, the directory removed under the walk).   *)
DiscoverEndpoints(t, order, fault) ==
    IF Stat(t, endpoints_dir) = "none"
    THEN [exc |-> "none", endpoints |-> <<>>]
    ELSE IF fault /\ Stat(t, endpoints_dir) = "dir"
    THEN [exc |-> "OSError", endpoints |-> <<>>]
    ELSE LET found == Glob(t, endpoints_dir, order)
         IN  [exc |-> "none",
              endpoints |-> [i \in 1..Len(found) |-> Str(found[i])]]

-----------------------------------------------------------------------------
(* json.dumps(list of str).encode() *)

JsonString(s) == <<QUOTE>> \o s \o <<QUOTE>>

RECURSIVE JsonItems(_)
JsonItems(l) ==
    IF l = <<>> THEN <<>>
    ELSE IF Len(l) = 1 THEN JsonString(l[1])
    ELSE JsonString(l[1]) \o <<", ">> \o JsonItems(Tail(l))

(* Variant of JsonDumps: str(endpoints), the Python repr of the list. *)
JsonDumps_Repr(l) ==
    IF l = <<>> THEN <<"[", "]">>
    ELSE <<"[", "'">> \o l[1] \o <<"'">>
         \o (IF Len(l) > 1 THEN <<", ", "..." >> ELSE <<>>) \o <<"]">>

JsonDumps(l) == <<"[">> \o JsonItems(l) \o <<"]">>

-----------------------------------------------------------------------------
(* http.server.BaseHTTPRequestHandler: the response under construction *)

Header(n, v) == [name |-> n, value |-> v]

ACAO == Header("Access-Control-Allow-Origin", "*")
ACAM == Header("Access-Control-Allow-Methods", "GET, POST, OPTIONS")
ACAH == Header("Access-Control-Allow-Headers", "Content-Type, Authorization")

(* Nothing written to the client. *)
NoWire == [status |-> 0, headers |-> <<>>, body |-> <<>>]

(* A handler instance before parse_request: no path attribute yet. *)
NewHandler ==
    [has_path |-> FALSE, path |-> <<>>, code |-> 0, buffer |-> <<>>,
     sent |-> NoWire, exc |-> "none"]

(* send_response buffers the status line and the Server and Date headers. *)
send_response(h, code) ==
    [h EXCEPT !.code = code,
              !.buffer = <<Header("Server", "SimpleHTTP"), Header("Date", "now")>>]

send_header(h, n, v) ==
    IF h.exc # "none" THEN h
    ELSE [h EXCEPT !.buffer = Append(@, Header(n, v))]

(* BaseHTTPRequestHandler.end_headers: flush the buffered status line and  *)
(* headers to the client.                                                  *)
base_end_headers(h) ==
    IF h.exc # "none" THEN h
    ELSE [h EXCEPT !.sent = [status |-> h.code, headers |-> h.buffer,
                             body |-> <<>>],
                   !.buffer = <<>>]

(* Variant of end_headers: the test self.path == '/endpoints'. *)
end_headers_ExactPath(h) ==
    IF h.exc # "none" THEN h
    ELSE IF ~h.has_path THEN [h EXCEPT !.exc = "AttributeError"]
    ELSE IF h.path = ENDPOINTS_PATH
    THEN base_end_headers(
             send_header(send_header(send_header(h,
                 ACAO.name, ACAO.value),
                 ACAM.name, ACAM.value),
                 ACAH.name, ACAH.value))
    ELSE base_end_headers(h)

(* FalAIHandler.end_headers.  Reading self.path on a handler whose request *)
(* line was rejected before the attribute was assigned raises              *)
(* AttributeError, and the buffered response is never flushed.             *)
end_headers(h) ==
    IF h.exc # "none" THEN h
    ELSE IF ~h.has_path THEN [h EXCEPT !.exc = "AttributeError"]
    ELSE IF StartsWith(h.path, ENDPOINTS_PATH)
    THEN base_end_headers(
             send_header(send_header(send_header(h,
                 ACAO.name, ACAO.value),
                 ACAM.name, ACAM.value),
                 ACAH.name, ACAH.value))
    ELSE base_end_headers(h)

(* self.wfile.write *)
write(h, bytes) ==
    IF h.exc # "none" THEN h
    ELSE [h EXCEPT !.sent.body = @ \o bytes]

ErrorBody(code) == <<"<!DOCTYPE HTML>", "Error response", ToString(code)>>

(* BaseHTTPRequestHandler.send_error *)
send_error(h, code) ==
    write(end_headers(
              send_header(send_header(send_header(send_response(h, code),
                  "Connection", "close"),
                  "Content-Type", "text/html;charset=utf-8"),
                  "Content-Length", "n")),
          ErrorBody(code))

-----------------------------------------------------------------------------
(* http.server.SimpleHTTPRequestHandler: static file serving *)

QueryTokens == {"?x"}

(* The part of a request path before its query string. *)
RECURSIVE StripQuery(_)
StripQuery(path) ==
    IF path = <<>> \/ Head(path) \in QueryTokens THEN <<>>
    ELSE <<Head(path)>> \o StripQuery(Tail(path))

(* The query string of a request path. *)
RECURSIVE QueryOf(_)
QueryOf(path) ==
    IF path = <<>> THEN <<>>
    ELSE IF Head(path) \in QueryTokens THEN path
    ELSE QueryOf(Tail(path))

EndsWithSlash(path) == path # <<>> /\ path[Len(path)] = SLASH

(* The tokens of a string, concatenated. *)
RECURSIVE Concat(_)
Concat(toks) == IF toks = <<>> THEN "" ELSE Head(toks) \o Concat(Tail(toks))

(* path.split('/') without the empty words: the names of the path. *)
RECURSIVE SplitNames(_, _)
SplitNames(toks, cur) ==
    IF toks = <<>> THEN (IF cur = "" THEN <<>> ELSE <<cur>>)
    ELSE IF Head(toks) = SLASH
    THEN (IF cur = "" THEN <<>> ELSE <<cur>>) \o SplitNames(Tail(toks), "")
    ELSE SplitNames(Tail(toks), cur \o Head(toks))

(* translate_path: the file a request path names, relative to the working  *)
(* directory.                                                              *)
translate_path(path) == SplitNames(StripQuery(path), "")

FileBytes(p) == <<"bytes of">> \o Str(p)

ListingBody(p) == <<"<!DOCTYPE HTML>", "Directory listing for">> \o Str(p)

(* guess_type: the content type by the extension of the file name. *)
guess_type(p) ==
    IF p[Len(p)] \in {SPEC_NAME, OTHER_NAME} THEN "application/json"
    ELSE IF p[Len(p)] = INDEX_NAME THEN "text/html"
    ELSE "application/octet-stream"

(* send_head for a regular file, then copyfile. *)
serve_file(h, p) ==
    write(end_headers(
              send_header(send_header(send_header(send_response(h, 200),
                  "Content-type", guess_type(p)),
                  "Content-Length", "n"),
                  "Last-Modified", "mtime")),
          FileBytes(p))

(* list_directory *)
list_directory(h, t, p) ==
    IF Stat(t, p) = "locked"
    THEN send_error(h, 404)
    ELSE write(end_headers(
                   send_header(send_header(send_response(h, 200),
                       "Content-type", "text/html; charset=utf-8"),
                       "Content-Length", "n")),
               ListingBody(p))

(* SimpleHTTPRequestHandler.do_GET *)
static_do_GET(h, t) ==
    LET p == translate_path(h.path)
        slash == EndsWithSlash(StripQuery(h.path))
        index == Append(p, INDEX_NAME)
    IN  IF IsDirKind(Stat(t, p))
        THEN IF ~slash
             THEN end_headers(
                      send_header(send_header(send_response(h, 301),
                          "Location",
                          Concat(StripQuery(h.path) \o <<SLASH>> \o QueryOf(h.path))),
                          "Content-Length", "0"))
             ELSE IF Stat(t, index) = "file"
             THEN serve_file(h, index)
             ELSE list_directory(h, t, p)
        ELSE IF slash THEN send_error(h, 404)
        ELSE IF Stat(t, p) = "file" THEN serve_file(h, p)
        ELSE send_error(h, 404)

-----------------------------------------------------------------------------
(* FalAIHandler *)

(* Variant of do_GET: the test self.path.startswith('/endpoints'). *)
do_GET_PrefixTest(h, t, order, fault) ==
    IF StartsWith(h.path, ENDPOINTS_PATH)
    THEN LET h1 == end_headers(
                       send_header(send_header(send_response(h, 200),
                           "Content-type", "application/json"),
                           ACAO.name, ACAO.value))
             found == DiscoverEndpoints(t, order, fault)
         IN  IF found.exc # "none"
             THEN [h1 EXCEPT !.exc = found.exc]
             ELSE write(h1, JsonDumps(found.endpoints))
    ELSE static_do_GET(h, t)

(* FalAIHandler.do_GET *)
do_GET(h, t, order, fault) ==
    IF h.path = ENDPOINTS_PATH
    THEN LET h1 == end_headers(
                       send_header(send_header(send_response(h, 200),
                           "Content-type", "application/json"),
                           ACAO.name, ACAO.value))
             found == DiscoverEndpoints(t, order, fault)
         IN  IF found.exc # "none"
             THEN [h1 EXCEPT !.exc = found.exc]
             ELSE write(h1, JsonDumps(found.endpoints))
    ELSE static_do_GET(h, t)

ValidVersions == {"HTTP/1.0", "HTTP/1.1"}

(* handle_one_request: parse_request rejects a bad request line with       *)
(* send_error(400) before it assigns self.path; a command without a do_    *)
(* method gets send_error(501).                                            *)
handle_one_request(req, t, order, fault) ==
    IF req.version \notin ValidVersions
    THEN send_error(NewHandler, 400)
    ELSE LET h == [NewHandler EXCEPT !.has_path = TRUE, !.path = req.path]
         IN  IF req.command = "GET"
             THEN do_GET(h, t, order, fault)
             ELSE send_error(h, 501)

-----------------------------------------------------------------------------
(* The client's reading of a discovery body: json.loads *)

JsonFail == [ok |-> FALSE, items |-> <<>>]

(* Index of the first QUOTE of s at or after i, 0 if there is none. *)
RECURSIVE NextQuote(_, _)
NextQuote(s, i) ==
    IF i > Len(s) THEN 0
    ELSE IF s[i] = QUOTE THEN i
    ELSE NextQuote(s, i + 1)

RECURSIVE JsonParseItems(_)
JsonParseItems(rest) ==
    IF rest = <<>> \/ Head(rest) # QUOTE THEN JsonFail
    ELSE LET j == NextQuote(rest, 2)
         IN  IF j = 0 THEN JsonFail
             ELSE LET item == SubSeq(rest, 2, j - 1)
                      after == SubSeq(rest, j + 1, Len(rest))
                  IN  IF after = <<>> THEN [ok |-> TRUE, items |-> <<item>>]
                      ELSE IF Head(after) # ", " THEN JsonFail
                      ELSE LET r == JsonParseItems(Tail(after))
                           IN  IF r.ok
                               THEN [ok |-> TRUE, items |-> <<item>> \o r.items]
                               ELSE JsonFail

(* A JSON array of strings, decoded; ok is FALSE for anything else. *)
JsonLoads(body) ==
    IF Len(body) < 2 \/ body[1] # "[" \/ body[Len(body)] # "]" THEN JsonFail
    ELSE IF Len(body) = 2 THEN [ok |-> TRUE, items |-> <<>>]
    ELSE JsonParseItems(SubSeq(body, 2, Len(body) - 1))

-----------------------------------------------------------------------------
(* Requests *)

NoRequest == [command |-> "", path |-> <<>>, version |-> ""]

RequestPaths ==
    {ENDPOINTS_PATH,                                    \* /endpoints
     ENDPOINTS_PATH \o <<SLASH>>,                       \* /endpoints/
     ENDPOINTS_PATH \o <<SLASH, "extra">>,              \* /endpoints/extra
     ENDPOINTS_PATH \o <<"?x">>,                        \* /endpoints?x
     ENDPOINTS_PATH \o <<"foo">>,                       \* /endpointsfoo
     ENDPOINTS_PATH \o <<SLASH, "a", SLASH, SPEC_NAME>>,\* /endpoints/a/openapi.json
     <<SLASH, INDEX_NAME>>,                             \* /index.html
     <<SLASH>>}                                         \* /

Requests ==
    {[command |-> "GET", path |-> p, version |-> "HTTP/1.1"] : p \in RequestPaths}
    \cup {[command |-> "POST", path |-> p, version |-> "HTTP/1.1"] :
             p \in {ENDPOINTS_PATH, <<SLASH, INDEX_NAME>>}}
    \cup {[command |-> "GET", path |-> p, version |-> "FOO/1.1"] :
             p \in {ENDPOINTS_PATH, <<SLASH, INDEX_NAME>>}}

NoListing == [known |-> FALSE, paths |-> {}]

-----------------------------------------------------------------------------
(* State machine *)

BANNER == <<"FalAI Development Server", "Serving at http://localhost:8000",
            "Press Ctrl+C to stop">>
STOPPED == "Server stopped"

EmptyTree == [p \in {} |-> "none"]

Init ==
    /\ tree = EmptyTree
    /\ pc = "start"
    /\ is_shut_down = FALSE
    /\ shutdown_request = FALSE
    /\ stdout = <<>>
    /\ exitStatus = "running"
    /\ request = NoRequest
    /\ wire = NoWire
    /\ exc = "none"
    /\ lastListing = NoListing

NoExchange ==
    /\ request' = NoRequest
    /\ wire' = NoWire
    /\ exc' = "none"

(* Lines 43-51: the banner, the bind, and the entry of serve_forever,      *)
(* which clears the is_shut_down event.                                    *)
Startup ==
    /\ pc = "start"
    /\ stdout' = stdout \o BANNER
    /\ is_shut_down' = FALSE
    /\ pc' = "serving"
    /\ NoExchange
    /\ UNCHANGED <<tree, shutdown_request, exitStatus, lastListing>>

(* The requests whose handling walks the endpoints directory; the scan    *)
(* order and a walk fault are inputs of those alone.                       *)
Walks(req) ==
    /\ req.version \in ValidVersions
    /\ req.command = "GET"
    /\ req.path = ENDPOINTS_PATH

(* One pass of the serve_forever loop on a ready connection:               *)
(* _handle_request_noblock runs the handler; an Exception that escapes it  *)
(* is logged by handle_error and the connection closed.                    *)
HandleRequest(req, order, fault) ==
    /\ pc = "serving"
    /\ ~Walks(req) => (order = DefaultOrder /\ ~fault)
    /\ LET h == handle_one_request(req, tree, order, fault)
           listed == JsonLoads(h.sent.body)
       IN  /\ request' = req
           /\ wire' = h.sent
           /\ exc' = h.exc
           /\ lastListing' =
                  IF req.command = "GET" /\ req.path = ENDPOINTS_PATH /\ listed.ok
                  THEN [known |-> TRUE, paths |-> Range(listed.items)]
                  ELSE lastListing
    /\ UNCHANGED <<tree, pc, is_shut_down, shutdown_request, stdout, exitStatus>>

(* Variant of Interrupt: the interrupt is caught inside the serving loop,  *)
(* so the finally clause of serve_forever has not run when the except      *)
(* clause calls shutdown().                                                *)
Interrupt_InsideLoop ==
    /\ pc = "serving"
    /\ pc' = "except"
    /\ NoExchange
    /\ UNCHANGED <<tree, is_shut_down, shutdown_request, stdout, exitStatus,
                   lastListing>>

(* Ctrl-C while the main thread is in serve_forever: KeyboardInterrupt     *)
(* unwinds through the finally clause of serve_forever, which resets       *)
(* __shutdown_request and sets is_shut_down, into the except clause.       *)
Interrupt ==
    /\ pc = "serving"
    /\ shutdown_request' = FALSE
    /\ is_shut_down' = TRUE
    /\ pc' = "except"
    /\ NoExchange
    /\ UNCHANGED <<tree, stdout, exitStatus, lastListing>>

(* Lines 52-54: print the stop message and call httpd.shutdown(), which    *)
(* sets __shutdown_request and then waits for is_shut_down.                *)
KeyboardInterruptHandler ==
    /\ pc = "except"
    /\ stdout' = Append(stdout, STOPPED)
    /\ shutdown_request' = TRUE
    /\ pc' = "shutdown_wait"
    /\ UNCHANGED <<tree, is_shut_down, exitStatus, request, wire, exc, lastListing>>

(* httpd.shutdown() returns once is_shut_down is set; the with block       *)
(* closes the socket and the script ends.                                  *)
ShutdownReturns ==
    /\ pc = "shutdown_wait"
    /\ is_shut_down
    /\ pc' = "exited"
    /\ exitStatus' = "0"
    /\ UNCHANGED <<tree, is_shut_down, shutdown_request, stdout, request, wire,
                   exc, lastListing>>

(* The environment: files and directories of the working directory are     *)
(* created, removed and have their mode changed while the server runs.     *)
Alive == pc \in {"start", "serving"}

CreateEntry(p, k) ==
    /\ Alive
    /\ p \notin DOMAIN tree
    /\ Cardinality(DOMAIN tree) < MaxEntries
    /\ Len(p) > 1 => (Parent(p) \in DOMAIN tree /\ IsDirKind(tree[Parent(p)]))
    /\ tree' = [q \in DOMAIN tree \cup {p} |-> IF q = p THEN k ELSE tree[q]]
    /\ NoExchange
    /\ lastListing' = NoListing
    /\ UNCHANGED <<pc, is_shut_down, shutdown_request, stdout, exitStatus>>

RemoveEntry(p) ==
    /\ Alive
    /\ p \in DOMAIN tree
    /\ \A q \in DOMAIN tree : Len(q) > 0 => Parent(q) # p
    /\ tree' = [q \in DOMAIN tree \ {p} |-> tree[q]]
    /\ NoExchange
    /\ lastListing' = NoListing
    /\ UNCHANGED <<pc, is_shut_down, shutdown_request, stdout, exitStatus>>

Chmod(p) ==
    /\ Alive
    /\ p \in DOMAIN tree
    /\ IsDirKind(tree[p])
    /\ tree' = [tree EXCEPT ![p] = IF @ = "dir" THEN "locked" ELSE "dir"]
    /\ NoExchange
    /\ lastListing' = NoListing
    /\ UNCHANGED <<pc, is_shut_down, shutdown_request, stdout, exitStatus>>

Next ==
    \/ Startup
    \/ \E req \in Requests, order \in ScanOrders, fault \in BOOLEAN :
           HandleRequest(req, order, fault)
    \/ Interrupt
    \/ KeyboardInterruptHandler
    \/ ShutdownReturns
    \/ \E p \in Universe, k \in Kinds : CreateEntry(p, k)
    \/ \E p \in Universe : RemoveEntry(p)
    \/ \E p \in Universe : Chmod(p)

Spec == Init /\ [][Next]_vars

(* The interpreter keeps running the main thread. *)
LiveSpec ==
    /\ Spec
    /\ WF_vars(KeyboardInterruptHandler)
    /\ WF_vars(ShutdownReturns)

TypeOK ==
    /\ DOMAIN tree \subseteq Universe
    /\ \A p \in DOMAIN tree :
           /\ tree[p] \in Kinds
           /\ Len(p) > 1 => (Parent(p) \in DOMAIN tree /\ IsDirKind(tree[Parent(p)]))
    /\ pc \in {"start", "serving", "except", "shutdown_wait", "exited"}

-----------------------------------------------------------------------------
(* Properties *)

HasHeader(w, hdr) == \E i \in 1..Len(w.headers) : w.headers[i] = hdr

CountHeader(w, n) ==
    Cardinality({i \in 1..Len(w.headers) : w.headers[i].name = n})

CorsNames == {ACAO.name, ACAM.name, ACAH.name}

(* The files named openapi.json below endpoints/ that the server can       *)
(* reach, as the strings the listing holds for them.                       *)
SpecFiles(t) ==
    {Str(p) : p \in {q \in DOMAIN t : /\ Len(q) >= 2
                                      /\ q[1] = endpoints_dir[1]
                                      /\ q[Len(q)] = SPEC_NAME
                                      /\ Stat(t, q) = "file"}}

C2_CorsOnEveryEndpointsResponse ==
    (wire.status # 0 /\ StartsWith(request.path, ENDPOINTS_PATH)) =>
        (HasHeader(wire, ACAO) /\ HasHeader(wire, ACAM) /\ HasHeader(wire, ACAH))

C2_Witness ==
    /\ request.path = ENDPOINTS_PATH \o <<"foo">>
    /\ wire.status = 404
    /\ HasHeader(wire, ACAO) /\ HasHeader(wire, ACAM) /\ HasHeader(wire, ACAH)

(* C3 as stated: the listing returned by GET /endpoints is exactly the set *)
(* of files named openapi.json at any depth under endpoints (no directory  *)
(* entries, no other names).                                               *)
C3_ListingIsExactlyTheSpecFiles ==
    (Walks(request) /\ JsonLoads(wire.body).ok) =>
        Range(JsonLoads(wire.body).items) = SpecFiles(tree)

(* C4: with no endpoints directory, GET /endpoints is answered 200 with    *)
(* the body [] and no error.                                               *)
C4_AbsentDirectoryListsNothing ==
    (Walks(request) /\ endpoints_dir \notin DOMAIN tree) =>
        (wire.status = 200 /\ wire.body = <<"[", "]">> /\ exc = "none")

C4_Witness ==
    /\ Walks(request)
    /\ endpoints_dir \notin DOMAIN tree
    /\ <<INDEX_NAME>> \in DOMAIN tree
    /\ wire.status = 200
    /\ wire.body = <<"[", "]">>

(* C5 as stated: a fault of the directory walk is reported to the client   *)
(* with a 5xx status, and the serving process goes on.                     *)
C5_WalkFaultIsServerError ==
    (Walks(request) /\ exc = "OSError") =>
        (wire.status \in 500..599 /\ pc = "serving" /\ exitStatus = "running")

(* C6: an interrupt during serve_forever leads to the stop message, to     *)
(* shutdown() returning and to exit status 0.                              *)
C6_InterruptLeadsToCleanExit ==
    (pc = "except") ~>
        (pc = "exited" /\ exitStatus = "0" /\ stdout = BANNER \o <<STOPPED>>)

C6_Witness ==
    /\ pc = "exited"
    /\ exitStatus = "0"
    /\ is_shut_down
    /\ stdout = BANNER \o <<STOPPED>>

C8_EveryRequestGetsAStatus ==
    request # NoRequest =>
        (wire.status # 0 /\ pc = "serving" /\ exitStatus = "running")

(* C9: handling a request changes no server-side state, and a discovery    *)
(* listing depends on the endpoints directory as it is at that request     *)
(* alone: it equals the previous listing of the same tree, holds every     *)
(* openapi.json file present and nothing that is absent.                   *)
C9_Stateless ==
    [][request' # NoRequest =>
          /\ UNCHANGED <<tree, pc, is_shut_down, shutdown_request, stdout,
                         exitStatus>>
          /\ (Walks(request') /\ exc' = "none") =>
                 LET listed == JsonLoads(wire'.body)
                 IN  /\ listed.ok
                     /\ lastListing.known => Range(listed.items) = lastListing.paths
                     /\ \A q \in DOMAIN tree :
                            (q[Len(q)] = SPEC_NAME /\ Stat(tree, q) = "file")
                                => Str(q) \in Range(listed.items)
                     /\ \A e \in Range(listed.items) :
                            \E q \in DOMAIN tree : Str(q) = e]_vars

C9_Witness ==
    /\ Walks(request)
    /\ lastListing.known
    /\ Cardinality(lastListing.paths) = 1
    /\ Range(JsonLoads(wire.body).items) = {Str(<<"endpoints", "a", SPEC_NAME>>)}

(* C10 as stated: no response carries a CORS header name more than once.   *)
C10_NoDuplicateCorsHeader ==
    wire.status # 0 => \A n \in CorsNames : CountHeader(wire, n) <= 1

====
